---- MODULE Spec2Model ----
(***************************************************************************)
(* Agrifood Burdens Explorer: the root component's UI state (App.js), the  *)
(* control panel's emittable events (ControlPanel.js) and the map          *)
(* component's instance life cycle and layer synchronisation (Map.js).     *)
(*                                                                         *)
(* Opacities are held in thousandths (0.85 is 850) so that the stroke      *)
(* opacity, half the circle opacity, stays an integer.                     *)
(***************************************************************************)
EXTENDS Integers, Sequences, FiniteSets, TLC

VARIABLES
    activeLayers,       \* App: useState(DEFAULT_ACTIVE_LAYERS), an array of keys
    layerOpacity,       \* App: useState(DEFAULT_OPACITY), key -> opacity
    selectedThreshold,  \* App: useState("strict")
    viewMode,           \* App: useState("cooccurrence")
    mapRef,             \* Map: mapRef.current, 0 for null, else the instance id
    readyRef,           \* Map: readyRef.current
    maps,               \* the live mapboxgl.Map instances: id -> style state
    created,            \* number of mapboxgl.Map instances constructed so far
    mounted,            \* Map: the init effect is set up (the component is mounted)
    closureMap,         \* Map: the `m` the effect's cleanup closes over, 0 for none
    popup,              \* Map: the popup popupRef.current holds
    cursor,             \* Map: m.getCanvas().style.cursor
    pointerEvent,       \* Map: the last pointer event delivered over the point layer
    locale,             \* the default locale of the runtime, read by toLocaleString()
    legend,             \* Legend: what the last render of the legend returned
    lastEvent,          \* history: the handler that ran last
    nEvents             \* history: number of control-panel events so far

vars == <<activeLayers, layerOpacity, selectedThreshold, viewMode,
          mapRef, readyRef, maps, created, mounted, closureMap, popup, cursor,
          pointerEvent, locale, legend, lastEvent, nEvents>>

(***************************************************************************)
(* Bounds of the model.                                                    *)
(***************************************************************************)
\* map instances constructed over a run (mount, unmount, mount again)
MaxInstances == 2

\* control-panel events over a run
MaxEvents == 5

\* callback invocations over a run of SpecCallbacks
MaxCalls == 3

\* slider positions (multiples of the slider step) the model lets the user pick
SliderPositions == {8, 20}

(***************************************************************************)
(* Configuration tables (burdenConfig).                                    *)
(***************************************************************************)
BurdenKeys == <<"env_footprint", "weather_extremes", "income_poverty", "malnutrition">>

BurdenKeySet == {BurdenKeys[i] : i \in 1..Len(BurdenKeys)}

Thresholds == <<"strict", "liberal">>

ThresholdSet == {Thresholds[i] : i \in 1..Len(Thresholds)}

ViewModes == {"cooccurrence", "individual"}

LayerKeys == {"breadbaskets", "cooccurrence"} \cup BurdenKeySet

RasterKeys == {"cooccurrence"} \cup BurdenKeySet

\* the slider: min 0, max 1, step 0.05
SliderStep == 50

SliderValues == {p * SliderStep : p \in SliderPositions}

(***************************************************************************)
(* Root component state (App.js).                                          *)
(***************************************************************************)
DEFAULT_ACTIVE_LAYERS == <<"breadbaskets", "cooccurrence">>

DefaultBreadbasketOpacity == 850

DefaultCooccurrenceOpacity == 750

DefaultBurdenOpacity == 700

DEFAULT_OPACITY ==
    [k \in LayerKeys |->
        IF k = "breadbaskets" THEN DefaultBreadbasketOpacity
        ELSE IF k = "cooccurrence" THEN DefaultCooccurrenceOpacity
        ELSE DefaultBurdenOpacity]

\* names every object literal inherits from Object.prototype
ObjectPrototypeKeys ==
    {"constructor", "toString", "toLocaleString", "valueOf", "hasOwnProperty",
     "isPrototypeOf", "propertyIsEnumerable", "__proto__",
     "__defineGetter__", "__defineSetter__", "__lookupGetter__", "__lookupSetter__"}

\* Array.prototype.includes
Includes(list, key) == \E i \in 1..Len(list) : list[i] = key

\* prev.filter((k) => k !== key)
Without(prev, key) ==
    LET Keep(k) == k # key IN SelectSeq(prev, Keep)

\* prev.filter((k) => !Object.keys(BURDEN_LAYERS).includes(k))
WithoutBurdens(prev) ==
    LET Keep(k) == ~Includes(BurdenKeys, k) IN SelectSeq(prev, Keep)

\* mutant: the key is appended whether or not the list includes it
handleToggleAlwaysAppends(prev, key) == Append(prev, key)

\* handleToggle: the updater passed to setActiveLayers
handleToggle(prev, key) ==
    IF Includes(prev, key) THEN Without(prev, key) ELSE Append(prev, key)

\* handleOpacityChange: the updater passed to setLayerOpacity
handleOpacityChange(prev, key, value) ==
    [k \in (DOMAIN prev) \cup {key} |-> IF k = key THEN value ELSE prev[k]]

\* handleThresholdChange: the value passed to setSelectedThreshold
handleThresholdChange(thresh) == thresh

\* mutant: the co-occurrence branch appends the key without looking for it
handleViewModeChangeAlwaysAppends(prev, mode) ==
    IF mode = "cooccurrence"
    THEN Append(WithoutBurdens(prev), "cooccurrence")
    ELSE Without(prev, "cooccurrence")

\* mutant: the individual branch clears the burden keys as well
handleViewModeChangeClearsBurdens(prev, mode) ==
    IF mode = "cooccurrence"
    THEN LET cleaned == WithoutBurdens(prev)
         IN  IF Includes(cleaned, "cooccurrence")
             THEN cleaned
             ELSE Append(cleaned, "cooccurrence")
    ELSE WithoutBurdens(Without(prev, "cooccurrence"))

\* mutant: the individual branch leaves 'cooccurrence' in the list
handleViewModeChangeKeepsCooccurrence(prev, mode) ==
    IF mode = "cooccurrence"
    THEN LET cleaned == WithoutBurdens(prev)
         IN  IF Includes(cleaned, "cooccurrence")
             THEN cleaned
             ELSE Append(cleaned, "cooccurrence")
    ELSE prev

\* handleViewModeChange: the updater passed to setActiveLayers
handleViewModeChange(prev, mode) ==
    IF mode = "cooccurrence"
    THEN LET cleaned == WithoutBurdens(prev)
         IN  IF Includes(cleaned, "cooccurrence")
             THEN cleaned
             ELSE Append(cleaned, "cooccurrence")
    ELSE Without(prev, "cooccurrence")

(***************************************************************************)
(* Control panel (ControlPanel.js): which controls are rendered.           *)
(***************************************************************************)
\* mutant: the burden buttons are rendered in both view modes
ButtonRenderedBurdensAlways(key, mode) ==
    \/ key = "breadbaskets"
    \/ key = "cooccurrence" /\ mode = "cooccurrence"
    \/ key \in BurdenKeySet

\* the LayerButton of key is rendered in view mode
ButtonRendered(key, mode) ==
    \/ key = "breadbaskets"
    \/ key = "cooccurrence" /\ mode = "cooccurrence"
    \/ key \in BurdenKeySet /\ mode = "individual"

\* mutant: every burden row of individual mode has a slider
SliderRenderedForEveryBurden(key, mode, active) ==
    \/ key = "breadbaskets" /\ Includes(active, "breadbaskets")
    \/ key = "cooccurrence" /\ mode = "cooccurrence" /\ Includes(active, "cooccurrence")
    \/ key \in BurdenKeySet /\ mode = "individual"

\* the OpacitySlider of key is rendered: bbActive in the base section,
\* coocActive in the co-occurrence section, isActive in a burden row
SliderRendered(key, mode, active) ==
    \/ key = "breadbaskets" /\ Includes(active, "breadbaskets")
    \/ key = "cooccurrence" /\ mode = "cooccurrence" /\ Includes(active, "cooccurrence")
    \/ key \in BurdenKeySet /\ mode = "individual" /\ Includes(active, key)

(***************************************************************************)
(* Map layers (Map.js).                                                    *)
(***************************************************************************)
BBLayer == <<"circle", "breadbaskets", "layer">>

RasterLayer(key, t) == <<"raster", key, t>>

AllLayerIds == {BBLayer} \cup {RasterLayer(k, t) : k \in RasterKeys, t \in ThresholdSet}

InitialCircleOpacity == 900

InitialStrokeOpacity == 500

InitialCooccurrenceOpacity == 750

InitialBurdenOpacity == 700

\* mutant: both co-occurrence variants are added visible
InitialVisibilityBothVariants(lid) ==
    IF lid = BBLayer THEN "visible"
    ELSE IF lid[2] = "cooccurrence" THEN "visible" ELSE "none"

\* addAllLayers: layout.visibility of each layer as added
InitialVisibility(lid) ==
    IF lid = BBLayer THEN "visible"
    ELSE IF lid[2] = "cooccurrence"
         THEN (IF lid[3] = "strict" THEN "visible" ELSE "none")
         ELSE "none"

\* addAllLayers: circle-opacity / raster-opacity of each layer as added
InitialOpacity(lid) ==
    IF lid = BBLayer THEN InitialCircleOpacity
    ELSE IF lid[2] = "cooccurrence" THEN InitialCooccurrenceOpacity
    ELSE InitialBurdenOpacity

\* new mapboxgl.Map(...): no custom layer yet
NewMap == [loaded |-> FALSE, sources |-> {}, layout |-> <<>>, opacity |-> <<>>,
           stroke |-> <<>>, hover |-> FALSE]

\* source ids: "breadbaskets" and one `raster-${key}-${threshKey}` per raster
BBSource == <<"vector", "breadbaskets", "source">>
RasterSource(key, thr) == <<"raster", key, thr>>

\* addAllSources(m)
addAllSources(m) ==
    [m EXCEPT !.sources =
        @ \cup {BBSource}
          \cup {RasterSource("cooccurrence", t) : t \in ThresholdSet}
          \cup {RasterSource(k, t) : k \in BurdenKeySet, t \in ThresholdSet}]

\* addAllLayers(m)
addAllLayers(m) ==
    [m EXCEPT !.layout  = [lid \in AllLayerIds |-> InitialVisibility(lid)],
              !.opacity = [lid \in AllLayerIds |-> InitialOpacity(lid)],
              !.stroke  = [lid \in {BBLayer} |-> InitialStrokeOpacity]]

\* m.getLayer(lid)
getLayer(m, lid) == lid \in DOMAIN m.layout

\* a ?? b on the opacity mapping
OpacityOr(opac, key, fallback) ==
    IF key \in DOMAIN opac THEN opac[key] ELSE fallback

FallbackCircleOpacity == 900

FallbackCooccurrenceOpacity == 750

FallbackBurdenOpacity == 700

FallbackOpacity(key) ==
    IF key = "breadbaskets" THEN FallbackCircleOpacity
    ELSE IF key = "cooccurrence" THEN FallbackCooccurrenceOpacity
    ELSE FallbackBurdenOpacity

\* (layerOpacity.breadbaskets ?? 0.9) * 0.5
StrokeOf(circleOpacity) == (circleOpacity * 5) \div 10

\* selectedThreshold || "strict"
EffectiveThreshold(thr) == IF thr = "" THEN "strict" ELSE thr

\* mutant: the threshold variant is not compared
ShowAnyVariant(lid, active, thr) ==
    IF lid = BBLayer
    THEN Includes(active, "breadbaskets")
    ELSE Includes(active, lid[2])

\* syncLayers: `show` of a raster layer (bbActive for the point layer)
Show(lid, active, thr) ==
    IF lid = BBLayer
    THEN Includes(active, "breadbaskets")
    ELSE Includes(active, lid[2]) /\ lid[3] = EffectiveThreshold(thr)

\* mutant: the stroke opacity is derived from the stroke opacity the layer has
syncLayersStrokeFromCurrent(m, active, opac, thr) ==
    [m EXCEPT
        !.layout  = [lid \in DOMAIN m.layout |->
                        IF Show(lid, active, thr) THEN "visible" ELSE "none"],
        !.opacity = [lid \in DOMAIN m.opacity |->
                        IF getLayer(m, lid) /\ Show(lid, active, thr)
                        THEN OpacityOr(opac, lid[2], FallbackOpacity(lid[2]))
                        ELSE m.opacity[lid]],
        !.stroke  = [lid \in DOMAIN m.stroke |->
                        IF getLayer(m, lid) /\ Show(lid, active, thr)
                        THEN StrokeOf(m.stroke[lid])
                        ELSE m.stroke[lid]]]

\* syncLayers, past its guard: the style state of m after the three blocks
syncLayers(m, active, opac, thr) ==
    [m EXCEPT
        !.layout  = [lid \in DOMAIN m.layout |->
                        IF Show(lid, active, thr) THEN "visible" ELSE "none"],
        !.opacity = [lid \in DOMAIN m.opacity |->
                        IF getLayer(m, lid) /\ Show(lid, active, thr)
                        THEN OpacityOr(opac, lid[2], FallbackOpacity(lid[2]))
                        ELSE m.opacity[lid]],
        !.stroke  = [lid \in DOMAIN m.stroke |->
                        IF getLayer(m, lid) /\ Show(lid, active, thr)
                        THEN StrokeOf(OpacityOr(opac, "breadbaskets", FallbackCircleOpacity))
                        ELSE m.stroke[lid]]]

\* the sync effect: syncLayers with its guard `if (!m || !readyRef.current) return`
SyncEffect(ms, ref, ready, active, opac, thr) ==
    IF ref = 0 \/ ~ready \/ ref \notin DOMAIN ms
    THEN ms
    ELSE [ms EXCEPT ![ref] = syncLayers(ms[ref], active, opac, thr)]

\* new mapboxgl.Popup(...): not added to a map, no content
NewPopup == [shown |-> FALSE, color |-> "", label |-> "", value |-> ""]

(***************************************************************************)
(* Hover popup (setupHoverEvents) and the tables it reads.                 *)
(***************************************************************************)
\* BREADBASKET.groupKey, BREADBASKET.valueKey
groupKey == "max_food_group"
valueKey == "max_food_group_value"

FOOD_GROUP_COLORS ==
    [k \in {"grains", "meat_and_fish", "dairy_and_eggs", "fruits", "vegetables",
            "oils_and_oilseed", "pulses", "starchy_roots", "treenuts", "other"} |->
        CASE k = "grains"           -> [color |-> "#f5c542", label |-> "Grains"]
          [] k = "meat_and_fish"    -> [color |-> "#ff6b6b", label |-> "Meat & Fish"]
          [] k = "dairy_and_eggs"   -> [color |-> "#fff06a", label |-> "Dairy & Eggs"]
          [] k = "fruits"           -> [color |-> "#7dde60", label |-> "Fruits"]
          [] k = "vegetables"       -> [color |-> "#3dcc3d", label |-> "Vegetables"]
          [] k = "oils_and_oilseed" -> [color |-> "#e89840", label |-> "Oils & Oilseeds"]
          [] k = "pulses"           -> [color |-> "#c4855c", label |-> "Pulses"]
          [] k = "starchy_roots"    -> [color |-> "#d49ce8", label |-> "Starchy Roots"]
          [] k = "treenuts"         -> [color |-> "#5ea54a", label |-> "Tree Nuts"]
          [] k = "other"            -> [color |-> "#aaaaaa", label |-> "Other"]]

\* the JavaScript value undefined, as a property key and as a template
\* literal renders it
Undefined == "undefined"

\* props[key] read as text: undefined when the feature has no such attribute
Prop(props, key) == IF key \in DOMAIN props THEN props[key] ELSE Undefined

\* FOOD_GROUP_COLORS[g]: an own entry, an inherited member (truthy, with
\* neither color nor label) or undefined
LookupFoodGroup(g) ==
    IF g \in DOMAIN FOOD_GROUP_COLORS
    THEN [truthy |-> TRUE, color |-> FOOD_GROUP_COLORS[g].color,
          label |-> FOOD_GROUP_COLORS[g].label]
    ELSE IF g \in ObjectPrototypeKeys
         THEN [truthy |-> TRUE, color |-> Undefined, label |-> Undefined]
         ELSE [truthy |-> FALSE, color |-> Undefined, label |-> Undefined]

\* FOOD_GROUP_COLORS[props[groupKey]] || { label: props[groupKey], color: "#888" }
FoodGroup(props) ==
    LET g == Prop(props, groupKey)
        entry == LookupFoodGroup(g)
    IN  IF entry.truthy
        THEN [color |-> entry.color, label |-> entry.label]
        ELSE [color |-> "#888", label |-> g]

\* default locales of the runtime: grouping by three with "," and with ".",
\* Indian grouping (three, then twos), Arabic-Indic digits
Locales == {"en-US", "de-DE", "en-IN", "ar-EG"}

\* the digits of the locale's numbering system; a character outside ASCII
\* is written as its code point
ArabicIndicDigits ==
    <<"U+0660", "U+0661", "U+0662", "U+0663", "U+0664",
      "U+0665", "U+0666", "U+0667", "U+0668", "U+0669">>

Digit(d, loc) == IF loc = "ar-EG" THEN ArabicIndicDigits[d + 1] ELSE ToString(d)

\* the grouping separator of the locale
GroupSeparator(loc) ==
    CASE loc = "en-US" -> ","
      [] loc = "en-IN" -> ","
      [] loc = "de-DE" -> "."
      [] loc = "ar-EG" -> "U+066C"

\* the digits of n, zero padded to width
RECURSIVE DigitsText(_, _, _)
DigitsText(n, width, loc) ==
    IF n < 10 /\ width <= 1
    THEN Digit(n, loc)
    ELSE DigitsText(n \div 10, width - 1, loc) \o Digit(n % 10, loc)

\* the groups above the lowest one: of two digits in en-IN, else of three
RECURSIVE HigherGroups(_, _)
HigherGroups(n, loc) ==
    LET width == IF loc = "en-IN" THEN 2 ELSE 3
        base == IF loc = "en-IN" THEN 100 ELSE 1000
    IN  IF n < base
        THEN DigitsText(n, 1, loc)
        ELSE HigherGroups(n \div base, loc) \o GroupSeparator(loc)
                 \o DigitsText(n % base, width, loc)

\* n.toLocaleString() for a natural number, in the runtime's default locale
toLocaleString(n, loc) ==
    IF n < 1000
    THEN DigitsText(n, 1, loc)
    ELSE HigherGroups(n \div 1000, loc) \o GroupSeparator(loc)
             \o DigitsText(n % 1000, 3, loc)

\* Number(props[valueKey] || 0).toLocaleString()
ProductionText(props, loc) ==
    toLocaleString(IF valueKey \in DOMAIN props THEN props[valueKey] ELSE 0, loc)

\* the mouseenter handler over (popup, cursor), for the event's features
\* and stateRef.current.activeLayers, in a runtime of default locale loc
onMouseEnter(st, features, active, loc) ==
    IF ~Includes(active, "breadbaskets")
    THEN st
    ELSE IF Len(features) = 0
         THEN [st EXCEPT !.cursor = "crosshair"]
         ELSE LET props == features[1]
                  fg == FoodGroup(props)
              IN  [popup  |-> [shown |-> TRUE, color |-> fg.color, label |-> fg.label,
                               value |-> ProductionText(props, loc)],
                   cursor |-> "crosshair"]

\* mutant: the mouseleave handler resets the cursor only
onMouseLeaveKeepsPopup(st) == [st EXCEPT !.cursor = ""]

\* the mouseleave handler: the cursor is reset and the popup removed
onMouseLeave(st) == [popup |-> [st.popup EXCEPT !.shown = FALSE], cursor |-> ""]

NoPointerEvent == [type |-> "none", features |-> <<>>]

(***************************************************************************)
(* Legend (Legend.js).                                                     *)
(***************************************************************************)
\* Object.keys(BURDEN_LAYERS).filter((k) => activeLayers.includes(k))
ActiveBurdens(active) ==
    LET Keep(k) == Includes(active, k) IN SelectSeq(BurdenKeys, Keep)

\* BurdenSwatchLegend: the keys it renders a swatch row for; a key is
\* skipped when BURDEN_LAYERS[key] is falsy, which it is neither for an own
\* key nor for a name inherited from Object.prototype
BurdenSwatchLegend(activeBurdens) ==
    LET HasConfig(k) == k \in BurdenKeySet \/ k \in ObjectPrototypeKeys
    IN  SelectSeq(activeBurdens, HasConfig)

\* CooccurrenceLegend: one row per entry of COOCCURRENCE_COLORS, by its value
CooccurrenceLegend == <<0, 1, 2, 3, 4>>

\* Legend returning null
NoLegend == [panel |-> FALSE, scale |-> <<>>, swatches |-> <<>>, foodGroups |-> FALSE]

\* mutant: the burden swatches are rendered in either view mode
LegendSwatchesInAnyMode(active, mode) ==
    LET bbActive == Includes(active, "breadbaskets")
        coocActive == Includes(active, "cooccurrence")
        activeBurdens == ActiveBurdens(active)
        hasContent ==
            \/ mode = "cooccurrence" /\ coocActive
            \/ Len(activeBurdens) > 0
            \/ bbActive
    IN  IF ~hasContent
        THEN NoLegend
        ELSE [panel      |-> TRUE,
              scale      |-> IF mode = "cooccurrence" /\ coocActive
                             THEN CooccurrenceLegend
                             ELSE <<>>,
              swatches   |-> IF Len(activeBurdens) > 0
                             THEN BurdenSwatchLegend(activeBurdens)
                             ELSE <<>>,
              foodGroups |-> bbActive]

\* Legend: the blocks it renders; the food-group block is BreadbasketLegend,
\* whose expanded flag is local to it
Legend(active, mode) ==
    LET bbActive == Includes(active, "breadbaskets")
        coocActive == Includes(active, "cooccurrence")
        activeBurdens == ActiveBurdens(active)
        hasContent ==
            \/ mode = "cooccurrence" /\ coocActive
            \/ mode = "individual" /\ Len(activeBurdens) > 0
            \/ bbActive
    IN  IF ~hasContent
        THEN NoLegend
        ELSE [panel      |-> TRUE,
              scale      |-> IF mode = "cooccurrence" /\ coocActive
                             THEN CooccurrenceLegend
                             ELSE <<>>,
              swatches   |-> IF mode = "individual" /\ Len(activeBurdens) > 0
                             THEN BurdenSwatchLegend(activeBurdens)
                             ELSE <<>>,
              foodGroups |-> bbActive]

Event(op, key, val) == [op |-> op, key |-> key, val |-> val]

(***************************************************************************)
(* Initial state: the first render has committed and no effect has run.    *)
(* Only the mouseenter handler reads the runtime's locale; the             *)
(* specifications without pointer events start in one locale, the one with *)
(* pointer events (InitHover) in each.                                     *)
(***************************************************************************)
Init ==
    /\ activeLayers = DEFAULT_ACTIVE_LAYERS
    /\ layerOpacity = DEFAULT_OPACITY
    /\ selectedThreshold = "strict"
    /\ viewMode = "cooccurrence"
    /\ mapRef = 0
    /\ readyRef = FALSE
    /\ maps = <<>>
    /\ created = 0
    /\ mounted = FALSE
    /\ closureMap = 0
    /\ popup = NewPopup
    /\ cursor = ""
    /\ pointerEvent = NoPointerEvent
    /\ locale = "en-US"
    /\ legend = Legend(DEFAULT_ACTIVE_LAYERS, "cooccurrence")
    /\ lastEvent = Event("render", "", 0)
    /\ nEvents = 0

(***************************************************************************)
(* Map component life cycle.                                               *)
(***************************************************************************)
\* the mount of App and, in its first commit, Map's effects.  Map is
\* rendered by App unconditionally and the root renders App once, so a mount
\* of Map is the mount of a new App: the four useState hooks start from
\* their initial values and the legend is rendered from them.  The init
\* effect returns at its guard when a map is held (and then registers no
\* cleanup), else it makes a popup and a map and keeps the map in mapRef;
\* the sync effect of the same commit runs after it
InitEffect ==
    /\ ~mounted
    /\ created < MaxInstances
    /\ mounted' = TRUE
    /\ activeLayers' = DEFAULT_ACTIVE_LAYERS
    /\ layerOpacity' = DEFAULT_OPACITY
    /\ selectedThreshold' = "strict"
    /\ viewMode' = "cooccurrence"
    /\ legend' = Legend(activeLayers', viewMode')
    /\ IF mapRef # 0
       THEN /\ closureMap' = 0
            /\ maps' = SyncEffect(maps, mapRef, readyRef, activeLayers', layerOpacity',
                                  selectedThreshold')
            /\ UNCHANGED <<mapRef, created, popup>>
       ELSE LET id == created + 1
                ms == (id :> NewMap) @@ maps
            IN  /\ popup' = NewPopup
                /\ mapRef' = id
                /\ closureMap' = id
                /\ created' = id
                /\ maps' = SyncEffect(ms, id, readyRef, activeLayers', layerOpacity',
                                      selectedThreshold')
    /\ lastEvent' = Event("mount", "", 0)
    /\ UNCHANGED <<readyRef, cursor, pointerEvent, locale, nEvents>>

\* mutant: a failing basemap styling call is not caught
TryBasemapTweaksUncaught(fails) == IF fails THEN "thrown" ELSE "ok"

\* the try/catch around the basemap styling calls: how control leaves it.
\* A failing call is caught and logged; the layers of the basemap style
\* these calls repaint are not part of the model's map record
TryBasemapTweaks(fails) == IF fails THEN "caught" ELSE "ok"

\* setupHoverEvents(m, ...): the two handlers are registered on the map
setupHoverEvents(m) == [m EXCEPT !.hover = TRUE]

\* the rest of the load handler, reached unless the try statement threw
loadHandler(m, outcome) ==
    IF outcome = "thrown"
    THEN m
    ELSE setupHoverEvents(addAllLayers(addAllSources(m)))

\* m.on("load", ...): the basemap is restyled, sources and layers are
\* registered, the hover handlers installed, ready is set; App passes no
\* onMapReady and a ref triggers no render, so no synchronization follows
Load ==
    /\ \E id \in DOMAIN maps, fails \in BOOLEAN :
        LET outcome == TryBasemapTweaks(fails) IN
        /\ ~maps[id].loaded
        /\ maps' = [maps EXCEPT ![id] = loadHandler([@ EXCEPT !.loaded = TRUE], outcome)]
        /\ readyRef' = IF outcome = "thrown" THEN readyRef ELSE TRUE
        /\ lastEvent' = Event("load", outcome, 0)
    /\ UNCHANGED <<activeLayers, layerOpacity, selectedThreshold, viewMode,
                   mapRef, created, mounted, closureMap, popup, cursor, pointerEvent, locale,
                   legend, nEvents>>

\* mutant: the cleanup forgets m.remove()
CleanupLeavesMap ==
    /\ mounted
    /\ mounted' = FALSE
    /\ closureMap' = 0
    /\ IF closureMap = 0
       THEN UNCHANGED <<readyRef, maps, mapRef, popup, cursor>>
       ELSE /\ readyRef' = FALSE
            /\ mapRef' = 0
            /\ UNCHANGED <<maps, popup, cursor>>
    /\ lastEvent' = Event("unmount", "", 0)
    /\ UNCHANGED <<activeLayers, layerOpacity, selectedThreshold, viewMode,
                   created, pointerEvent, locale, legend, nEvents>>

\* mutant: the cleanup leaves readyRef set
CleanupLeavesReady ==
    /\ mounted
    /\ mounted' = FALSE
    /\ closureMap' = 0
    /\ IF closureMap = 0
       THEN UNCHANGED <<readyRef, maps, mapRef, popup, cursor>>
       ELSE /\ maps' = [id \in (DOMAIN maps) \ {closureMap} |-> maps[id]]
            /\ mapRef' = 0
            /\ popup' = [popup EXCEPT !.shown = FALSE]
            /\ cursor' = ""
            /\ UNCHANGED readyRef
    /\ lastEvent' = Event("unmount", "", 0)
    /\ UNCHANGED <<activeLayers, layerOpacity, selectedThreshold, viewMode,
                   created, pointerEvent, locale, legend, nEvents>>

\* the unmount of App, which runs the init effect's cleanup when the effect
\* returned one (the root state is discarded and starts anew at the mount):
\* readyRef is reset, m.remove() tears the map down with its canvas and the
\* popup shown on it, mapRef is cleared
Cleanup ==
    /\ mounted
    /\ mounted' = FALSE
    /\ closureMap' = 0
    /\ IF closureMap = 0
       THEN UNCHANGED <<readyRef, maps, mapRef, popup, cursor>>
       ELSE /\ readyRef' = FALSE
            /\ maps' = [id \in (DOMAIN maps) \ {closureMap} |-> maps[id]]
            /\ mapRef' = 0
            /\ popup' = [popup EXCEPT !.shown = FALSE]
            /\ cursor' = ""
    /\ lastEvent' = Event("unmount", "", 0)
    /\ UNCHANGED <<activeLayers, layerOpacity, selectedThreshold, viewMode,
                   created, pointerEvent, locale, legend, nEvents>>

(***************************************************************************)
(* The four callbacks of the root, each followed by the render it causes   *)
(* and the sync effect of that render.                                     *)
(***************************************************************************)
Toggle(key) ==
    /\ mounted
    /\ nEvents < MaxEvents
    /\ activeLayers' = handleToggle(activeLayers, key)
    /\ maps' = SyncEffect(maps, mapRef, readyRef, activeLayers', layerOpacity,
                          selectedThreshold)
    /\ lastEvent' = Event("toggle", key, 0)
    /\ nEvents' = nEvents + 1
    /\ legend' = Legend(activeLayers', viewMode)
    /\ UNCHANGED <<layerOpacity, selectedThreshold, viewMode, mapRef, readyRef, created,
                   mounted, closureMap, popup, cursor, pointerEvent, locale>>

SetOpacity(key, value) ==
    /\ mounted
    /\ nEvents < MaxEvents
    /\ layerOpacity' = handleOpacityChange(layerOpacity, key, value)
    /\ maps' = SyncEffect(maps, mapRef, readyRef, activeLayers, layerOpacity',
                          selectedThreshold)
    /\ lastEvent' = Event("setOpacity", key, value)
    /\ nEvents' = nEvents + 1
    /\ legend' = Legend(activeLayers, viewMode)
    /\ UNCHANGED <<activeLayers, selectedThreshold, viewMode, mapRef, readyRef, created,
                   mounted, closureMap, popup, cursor, pointerEvent, locale>>

\* setting the state to the value it holds causes no render, so no sync
SetThreshold(thresh) ==
    /\ mounted
    /\ nEvents < MaxEvents
    /\ selectedThreshold' = handleThresholdChange(thresh)
    /\ maps' = IF selectedThreshold' = selectedThreshold
               THEN maps
               ELSE SyncEffect(maps, mapRef, readyRef, activeLayers, layerOpacity,
                               selectedThreshold')
    /\ lastEvent' = Event("setThreshold", thresh, 0)
    /\ nEvents' = nEvents + 1
    /\ legend' = Legend(activeLayers, viewMode)
    /\ UNCHANGED <<activeLayers, layerOpacity, viewMode, mapRef, readyRef, created,
                   mounted, closureMap, popup, cursor, pointerEvent, locale>>

SetViewMode(mode) ==
    /\ mounted
    /\ nEvents < MaxEvents
    /\ viewMode' = mode
    /\ activeLayers' = handleViewModeChange(activeLayers, mode)
    /\ maps' = SyncEffect(maps, mapRef, readyRef, activeLayers', layerOpacity,
                          selectedThreshold)
    /\ lastEvent' = Event("setViewMode", mode, 0)
    /\ nEvents' = nEvents + 1
    /\ legend' = Legend(activeLayers', viewMode')
    /\ UNCHANGED <<layerOpacity, selectedThreshold, mapRef, readyRef, created,
                   mounted, closureMap, popup, cursor, pointerEvent, locale>>

(***************************************************************************)
(* Spec: the application, driven through the controls the panel renders.   *)
(***************************************************************************)
PanelToggle ==
    \E key \in LayerKeys :
        ButtonRendered(key, viewMode) /\ Toggle(key)

PanelSetOpacity ==
    \E key \in LayerKeys, value \in SliderValues :
        SliderRendered(key, viewMode, activeLayers) /\ SetOpacity(key, value)

PanelSetThreshold == \E thresh \in ThresholdSet : SetThreshold(thresh)

PanelSetViewMode == \E mode \in ViewModes : SetViewMode(mode)

Next ==
    \/ InitEffect
    \/ Load
    \/ Cleanup
    \/ PanelToggle
    \/ PanelSetOpacity
    \/ PanelSetThreshold
    \/ PanelSetViewMode

Spec == Init /\ [][Next]_vars

(***************************************************************************)
(* SpecCallbacks: the root's state machine on its own, its four callbacks  *)
(* called with any key, value, threshold or mode.                          *)
(***************************************************************************)
CallToggle == \E key \in LayerKeys : nEvents < MaxCalls /\ Toggle(key)

CallSetOpacity ==
    \E key \in LayerKeys, value \in SliderValues :
        nEvents < MaxCalls /\ SetOpacity(key, value)

CallSetThreshold == \E thresh \in ThresholdSet : nEvents < MaxCalls /\ SetThreshold(thresh)

CallSetViewMode == \E mode \in ViewModes : nEvents < MaxCalls /\ SetViewMode(mode)

NextCallbacks ==
    \/ InitEffect
    \/ Load
    \/ Cleanup
    \/ CallToggle
    \/ CallSetOpacity
    \/ CallSetThreshold
    \/ CallSetViewMode

SpecCallbacks == Init /\ [][NextCallbacks]_vars

(***************************************************************************)
(* Pointer events over the point layer.  Mapbox delivers them for a layer  *)
(* that is visible on a live map whose handlers are installed; the events  *)
(* arrive in any order and the enter event carries the features under the  *)
(* pointer.  stateRef.current.activeLayers is the active list of the last  *)
(* render, since the effect that stores it runs in the same commit.        *)
(***************************************************************************)
\* attribute values of the hovered features: a food group of the table, one
\* that is not, two inherited names; production values of one to three groups
HoverGroups == {"grains", "treenuts", "spices", "constructor", "__defineGetter__"}
HoverValues == {0, 950, 1234567}

\* feature properties with each of the two attributes present or missing
HoverFeatures ==
    {(groupKey :> g) @@ (valueKey :> v) : g \in HoverGroups, v \in HoverValues}
    \cup {(groupKey :> g) : g \in HoverGroups}
    \cup {(valueKey :> v) : v \in HoverValues}
    \cup {<<>>}

PointerLayerLive ==
    /\ mapRef \in DOMAIN maps
    /\ maps[mapRef].hover
    /\ getLayer(maps[mapRef], BBLayer)
    /\ maps[mapRef].layout[BBLayer] = "visible"

MouseEnter ==
    /\ PointerLayerLive
    /\ \E features \in {<<>>} \cup {<<f>> : f \in HoverFeatures} :
        LET st == onMouseEnter([popup |-> popup, cursor |-> cursor], features,
                               activeLayers, locale)
        IN  /\ popup' = st.popup
            /\ cursor' = st.cursor
            /\ pointerEvent' = [type |-> "mouseenter", features |-> features]
    /\ lastEvent' = Event("mouseenter", "", 0)
    /\ UNCHANGED <<activeLayers, layerOpacity, selectedThreshold, viewMode,
                   mapRef, readyRef, maps, created, mounted, closureMap, legend,
                   locale, nEvents>>

MouseLeave ==
    /\ PointerLayerLive
    /\ LET st == onMouseLeave([popup |-> popup, cursor |-> cursor])
       IN  /\ popup' = st.popup
           /\ cursor' = st.cursor
    /\ pointerEvent' = [type |-> "mouseleave", features |-> <<>>]
    /\ lastEvent' = Event("mouseleave", "", 0)
    /\ UNCHANGED <<activeLayers, layerOpacity, selectedThreshold, viewMode,
                   mapRef, readyRef, maps, created, mounted, closureMap, legend,
                   locale, nEvents>>

\* the toggle button of the point layer, always rendered
ToggleBreadbaskets == Toggle("breadbaskets")

NextHover ==
    \/ InitEffect
    \/ Load
    \/ Cleanup
    \/ ToggleBreadbaskets
    \/ MouseEnter
    \/ MouseLeave

\* the initial state of the application in a runtime of any of the locales
InitHover ==
    /\ activeLayers = DEFAULT_ACTIVE_LAYERS
    /\ layerOpacity = DEFAULT_OPACITY
    /\ selectedThreshold = "strict"
    /\ viewMode = "cooccurrence"
    /\ mapRef = 0
    /\ readyRef = FALSE
    /\ maps = <<>>
    /\ created = 0
    /\ mounted = FALSE
    /\ closureMap = 0
    /\ popup = NewPopup
    /\ cursor = ""
    /\ pointerEvent = NoPointerEvent
    /\ locale \in Locales
    /\ legend = Legend(DEFAULT_ACTIVE_LAYERS, "cooccurrence")
    /\ lastEvent = Event("render", "", 0)
    /\ nEvents = 0

SpecHover == InitHover /\ [][NextHover]_vars

(***************************************************************************)
(* The legend as a function of its props: every active list without a     *)
(* repeated key and either view mode, rendered once.                       *)
(***************************************************************************)
\* the arrays over LayerKeys in which no key occurs twice
ActiveLists ==
    UNION {{l \in [1..n -> LayerKeys] : \A i, j \in 1..n : i # j => l[i] # l[j]} :
           n \in 0..Cardinality(LayerKeys)}

InitLegend ==
    /\ activeLayers \in ActiveLists
    /\ viewMode \in ViewModes
    /\ layerOpacity = DEFAULT_OPACITY
    /\ selectedThreshold = "strict"
    /\ mapRef = 0
    /\ readyRef = FALSE
    /\ maps = <<>>
    /\ created = 0
    /\ mounted = FALSE
    /\ closureMap = 0
    /\ popup = NewPopup
    /\ cursor = ""
    /\ pointerEvent = NoPointerEvent
    /\ locale = "en-US"
    /\ legend = NoLegend
    /\ lastEvent = Event("props", "", 0)
    /\ nEvents = 0

RenderLegend ==
    /\ lastEvent.op = "props"
    /\ legend' = Legend(activeLayers, viewMode)
    /\ lastEvent' = Event("legend", "", 0)
    /\ UNCHANGED <<activeLayers, layerOpacity, selectedThreshold, viewMode,
                   mapRef, readyRef, maps, created, mounted, closureMap, popup,
                   cursor, pointerEvent, locale, nEvents>>

NextLegend == RenderLegend

SpecLegend == InitLegend /\ [][NextLegend]_vars

(***************************************************************************)
(* Vocabulary of the properties.                                           *)
(***************************************************************************)
\* number of occurrences of key in list
Count(list, key) == Cardinality({i \in 1..Len(list) : list[i] = key})

\* the keys of an array, as a set
KeysOf(list) == {list[i] : i \in 1..Len(list)}

\* the map the component holds has run its load handler and is not torn down
MapReady == readyRef /\ mapRef \in DOMAIN maps /\ maps[mapRef].loaded

\* the layers of m whose layout visibility is "visible"
VisibleSet(m) == {lid \in DOMAIN m.layout : m.layout[lid] = "visible"}

\* the layers the root state asks to be visible
ExpectedVisible(active, thr) ==
    {lid \in {BBLayer} : Includes(active, "breadbaskets")}
        \cup {RasterLayer(k, t) : k \in {r \in RasterKeys : Includes(active, r)},
                                  t \in {thr}}

\* the rendered opacities of every live map
Rendered == [id \in DOMAIN maps |-> <<maps[id].opacity, maps[id].stroke>>]

(***************************************************************************)
(* C1: whenever the map is ready, the set of visible layers is exactly     *)
(* the point layer iff "breadbaskets" is active, and raster-k-t iff k is   *)
(* active and t is the selected threshold, whatever events came before,    *)
(* the ones before the load event included.                                *)
(***************************************************************************)
C1_VisibleSetMatchesState ==
    MapReady => VisibleSet(maps[mapRef]) = ExpectedVisible(activeLayers, selectedThreshold)

(***************************************************************************)
(* C2: handleViewModeChange("cooccurrence") leaves view mode               *)
(* "cooccurrence" and an active list holding "cooccurrence" exactly once   *)
(* and no individual-burden key.                                           *)
(***************************************************************************)
C2_SwitchToCooccurrence ==
    (lastEvent.op = "setViewMode" /\ lastEvent.key = "cooccurrence") =>
        /\ viewMode = "cooccurrence"
        /\ Count(activeLayers, "cooccurrence") = 1
        /\ \A b \in BurdenKeySet : ~Includes(activeLayers, b)

\* a switch to co-occurrence made after at least one earlier event
C2_Witness ==
    /\ lastEvent.op = "setViewMode" /\ lastEvent.key = "cooccurrence"
    /\ nEvents >= 2
    /\ activeLayers = <<"breadbaskets", "cooccurrence">>

(***************************************************************************)
(* C3: handleViewModeChange("individual") leaves an active list without    *)
(* "cooccurrence" in which every other key is active iff it was before.    *)
(***************************************************************************)
C3_SwitchToIndividual ==
    [][(lastEvent'.op = "setViewMode" /\ lastEvent'.key = "individual") =>
          /\ viewMode' = "individual"
          /\ ~Includes(activeLayers', "cooccurrence")
          /\ \A k \in LayerKeys \ {"cooccurrence"} :
                Includes(activeLayers', k) <=> Includes(activeLayers, k)]_vars

\* a switch to individual that had burden selections to preserve
C3_Witness ==
    /\ lastEvent.op = "setViewMode" /\ lastEvent.key = "individual"
    /\ \E b \in BurdenKeySet : Includes(activeLayers, b)
    /\ Includes(activeLayers, "breadbaskets")

(***************************************************************************)
(* C4: through the events the panel can emit, "cooccurrence" is never      *)
(* active together with a burden key: no burden key is active in view mode *)
(* "cooccurrence", and "cooccurrence" is not active in view mode           *)
(* "individual".                                                           *)
(***************************************************************************)
C4_ModesExclusive ==
    /\ viewMode = "cooccurrence" => \A b \in BurdenKeySet : ~Includes(activeLayers, b)
    /\ viewMode = "individual" => ~Includes(activeLayers, "cooccurrence")
    /\ ~(Includes(activeLayers, "cooccurrence")
            /\ \E b \in BurdenKeySet : Includes(activeLayers, b))

\* back in co-occurrence mode after burdens had been switched on
C4_Witness ==
    /\ viewMode = "cooccurrence"
    /\ lastEvent.op = "setViewMode"
    /\ nEvents >= 3
    /\ Includes(activeLayers, "cooccurrence")

(***************************************************************************)
(* C5: in every state of every map, each raster key has at most one of     *)
(* its two layers visible, and a visible one is the variant of the         *)
(* selected threshold.                                                     *)
(***************************************************************************)
C5_OneVariantOfSelectedThreshold ==
    \A id \in DOMAIN maps : \A k \in RasterKeys :
        /\ Cardinality({t \in ThresholdSet :
                RasterLayer(k, t) \in VisibleSet(maps[id])}) <= 1
        /\ \A t \in ThresholdSet :
                RasterLayer(k, t) \in VisibleSet(maps[id]) => t = selectedThreshold

(***************************************************************************)
(* C6: whenever the map is ready, every visible layer is rendered with     *)
(* the opacity the root's mapping holds for its key, also right after      *)
(* load in the default state.                                              *)
(***************************************************************************)
C6_VisibleOpacityMatchesMapping ==
    MapReady =>
        \A lid \in VisibleSet(maps[mapRef]) :
            maps[mapRef].opacity[lid] = layerOpacity[lid[2]]

(***************************************************************************)
(* C7: setOpacity(k, v) for a key k that is not active changes the         *)
(* rendered opacity of no map layer, and when k is toggled active on a     *)
(* ready map its visible layer is rendered with the value last set.        *)
(***************************************************************************)
C7_InactiveOpacityChangesNothing ==
    [][/\ (lastEvent'.op = "setOpacity" /\ ~Includes(activeLayers, lastEvent'.key))
            => Rendered' = Rendered
       /\ (lastEvent'.op = "toggle" /\ Includes(activeLayers', lastEvent'.key)
                /\ MapReady')
            => \A lid \in VisibleSet(maps'[mapRef']) :
                    lid[2] = lastEvent'.key =>
                        maps'[mapRef'].opacity[lid] = layerOpacity'[lid[2]]]_vars

(***************************************************************************)
(* C8: synchronisation is idempotent: when a step has run the sync effect  *)
(* on a ready map, running it again with the same active list, opacity     *)
(* mapping and threshold leaves every layer's visibility and opacity as    *)
(* the first run left them.                                                *)
(***************************************************************************)
C8_SyncIdempotent ==
    [][(/\ MapReady /\ mapRef' = mapRef /\ readyRef'
        /\ maps' = SyncEffect(maps, mapRef, readyRef, activeLayers', layerOpacity',
                              selectedThreshold'))
          => SyncEffect(maps', mapRef', readyRef', activeLayers', layerOpacity',
                        selectedThreshold') = maps']_vars

\* a sync has run on a ready map and changed what load had left
C8_Witness ==
    /\ MapReady
    /\ lastEvent.op \in {"toggle", "setOpacity", "setViewMode"}
    /\ maps[mapRef] # loadHandler([NewMap EXCEPT !.loaded = TRUE], "ok")

(***************************************************************************)
(* C9: in the default state, with no user event, a loaded map shows        *)
(* exactly the point layer and the strict co-occurrence raster.            *)
(***************************************************************************)
C9_DefaultView ==
    (/\ MapReady /\ nEvents = 0
     /\ KeysOf(activeLayers) = {"breadbaskets", "cooccurrence"}
     /\ selectedThreshold = "strict" /\ viewMode = "cooccurrence")
        => VisibleSet(maps[mapRef]) = {BBLayer, RasterLayer("cooccurrence", "strict")}

\* loaded, and nothing has been clicked
C9_Witness ==
    /\ MapReady /\ nEvents = 0 /\ lastEvent.op = "load"
    /\ activeLayers = DEFAULT_ACTIVE_LAYERS
    /\ selectedThreshold = "strict" /\ viewMode = "cooccurrence"

(***************************************************************************)
(* C10: setThreshold changes only the selected threshold, and on a ready   *)
(* map every active raster key then shows the variant of the new           *)
(* threshold and hides the variant of the old one.                         *)
(***************************************************************************)
C10_ThresholdSwap ==
    [][lastEvent'.op = "setThreshold" =>
          /\ selectedThreshold' = lastEvent'.key
          /\ activeLayers' = activeLayers
          /\ layerOpacity' = layerOpacity
          /\ viewMode' = viewMode
          /\ (MapReady' /\ selectedThreshold' # selectedThreshold) =>
                \A k \in RasterKeys :
                    Includes(activeLayers, k) =>
                        /\ maps'[mapRef'].layout[RasterLayer(k, selectedThreshold')]
                                = "visible"
                        /\ maps'[mapRef'].layout[RasterLayer(k, selectedThreshold)]
                                = "none"]_vars

\* strict to liberal on a ready map with co-occurrence active
C10_Witness ==
    /\ lastEvent.op = "setThreshold" /\ lastEvent.key = "liberal"
    /\ MapReady
    /\ Includes(activeLayers, "cooccurrence")
    /\ selectedThreshold = "liberal"
    /\ maps[mapRef].layout[RasterLayer("cooccurrence", "liberal")] = "visible"
    /\ maps[mapRef].layout[RasterLayer("cooccurrence", "strict")] = "none"

(***************************************************************************)
(* C11: over every sequence of mount, load, unmount and control events at  *)
(* most one map instance is live; a mount creates an instance only when    *)
(* none is held, and then exactly one fresh, unloaded one; an unmount      *)
(* removes the instance, clears mapRef and resets readyRef.                *)
(***************************************************************************)
C11_SingleInstance ==
    [][ /\ Cardinality(DOMAIN maps') <= 1
        /\ (~mounted /\ mounted') =>
               /\ mapRef = 0 =>
                      /\ created' = created + 1
                      /\ mapRef' = created'
                      /\ DOMAIN maps' = {created'}
                      /\ ~maps'[created'].loaded
               /\ mapRef # 0 => created' = created /\ mapRef' = mapRef
        /\ (mounted /\ ~mounted') =>
               /\ DOMAIN maps' = {}
               /\ mapRef' = 0
               /\ ~readyRef' ]_vars

\* a second instance has been created by a mount that followed an unmount,
\* and it has loaded
C11_Witness ==
    /\ created = 2
    /\ mounted
    /\ mapRef = 2
    /\ DOMAIN maps = {2}
    /\ maps[2].loaded

(***************************************************************************)
(* C12: when a basemap styling call of the load handler fails, the failure *)
(* is caught and the handler completes as when none fails: the 11 sources  *)
(* and 11 layers are registered, the hover handlers installed and readyRef *)
(* is true, and the map is in the state a load without failure leaves.     *)
(***************************************************************************)
C12_StylingFailureCaught ==
    lastEvent.op = "load" =>
        /\ lastEvent.key \in {"ok", "caught"}
        /\ readyRef
        /\ mapRef \in DOMAIN maps
        /\ Cardinality(maps[mapRef].sources) = 11
        /\ Cardinality(DOMAIN maps[mapRef].layout) = 11
        /\ maps[mapRef].hover
        /\ maps[mapRef] = loadHandler([NewMap EXCEPT !.loaded = TRUE], "ok")

\* a load during which a styling call failed has just completed
C12_Witness ==
    /\ lastEvent.op = "load"
    /\ lastEvent.key = "caught"
    /\ MapReady
    /\ Cardinality(maps[mapRef].sources) = 11

(***************************************************************************)
(* C13: after a pointer enter event that carries a feature while           *)
(* 'breadbaskets' is active, whatever the feature's attributes, the popup  *)
(* is shown; its swatch colour and label are the table entry for a food    *)
(* group of the table and otherwise the colour '#888' and a label that is  *)
(* a text; a missing production value is displayed as 0, the digit zero    *)
(* of the runtime's locale.                                                *)
(***************************************************************************)
C13_PopupFallsBack ==
    (/\ lastEvent.op = "mouseenter"
     /\ Len(pointerEvent.features) > 0
     /\ Includes(activeLayers, "breadbaskets"))
    => LET props == pointerEvent.features[1]
       IN  /\ popup.shown
           /\ (groupKey \in DOMAIN props /\ props[groupKey] \in DOMAIN FOOD_GROUP_COLORS)
                  => /\ popup.color = FOOD_GROUP_COLORS[props[groupKey]].color
                     /\ popup.label = FOOD_GROUP_COLORS[props[groupKey]].label
           /\ ~(groupKey \in DOMAIN props /\ props[groupKey] \in DOMAIN FOOD_GROUP_COLORS)
                  => /\ popup.color = "#888"
                     /\ popup.label # Undefined
           /\ valueKey \notin DOMAIN props => popup.value = Digit(0, locale)

(***************************************************************************)
(* C14: for every sequence of pointer enter and leave events over the      *)
(* point layer of a ready map with 'breadbaskets' active, the popup is     *)
(* shown after every enter event that carries a feature and hidden after   *)
(* every leave event, which also resets the cursor.                        *)
(***************************************************************************)
C14_PopupFollowsPointer ==
    /\ (/\ lastEvent.op = "mouseenter"
        /\ Len(pointerEvent.features) > 0
        /\ MapReady
        /\ Includes(activeLayers, "breadbaskets"))
       => popup.shown /\ cursor = "crosshair"
    /\ lastEvent.op = "mouseleave" => ~popup.shown /\ cursor = ""

\* a leave event has hidden a popup that an enter event had filled and shown
C14_Witness ==
    /\ lastEvent.op = "mouseleave"
    /\ MapReady
    /\ Includes(activeLayers, "breadbaskets")
    /\ popup.label = "Grains"
    /\ ~popup.shown

(***************************************************************************)
(* C15: the legend renders the 0-4 co-occurrence scale iff the view mode   *)
(* is 'cooccurrence' and 'cooccurrence' is active; the burden swatch block *)
(* iff the view mode is 'individual' and a burden is active, and then one  *)
(* swatch for each active burden key and no other; the food-group key iff  *)
(* 'breadbaskets' is active; never the scale and the swatches together;    *)
(* and nothing at all when none of the three conditions holds.             *)
(***************************************************************************)
C15_LegendBlocks ==
    lastEvent.op = "legend" =>
        LET scaleCase == viewMode = "cooccurrence" /\ Includes(activeLayers, "cooccurrence")
            burdens == KeysOf(activeLayers) \cap BurdenKeySet
            swatchCase == viewMode = "individual" /\ burdens # {}
            bbCase == Includes(activeLayers, "breadbaskets")
        IN  /\ legend.scale = (IF scaleCase THEN <<0, 1, 2, 3, 4>> ELSE <<>>)
            /\ Len(legend.swatches) > 0 <=> swatchCase
            /\ swatchCase =>
                   /\ KeysOf(legend.swatches) = burdens
                   /\ Len(legend.swatches) = Cardinality(burdens)
            /\ legend.foodGroups <=> bbCase
            /\ ~(Len(legend.scale) > 0 /\ Len(legend.swatches) > 0)
            /\ legend.panel <=> (scaleCase \/ swatchCase \/ bbCase)

\* the legend of individual mode with two burdens and 'cooccurrence' active:
\* two swatches, no scale
C15_Witness ==
    /\ lastEvent.op = "legend"
    /\ viewMode = "individual"
    /\ activeLayers = <<"malnutrition", "cooccurrence", "env_footprint">>
    /\ legend.swatches = <<"env_footprint", "malnutrition">>
    /\ legend.scale = <<>>

(***************************************************************************)
(* C16: the panel renders the opacity slider of a key iff the key is       *)
(* active and its toggle button is rendered in the current view mode, so   *)
(* every setOpacity(k, v) the panel emits is for an active key k.          *)
(***************************************************************************)
C16_SliderOnlyForActive ==
    /\ \A key \in LayerKeys :
           SliderRendered(key, viewMode, activeLayers)
               <=> (Includes(activeLayers, key) /\ ButtonRendered(key, viewMode))
    /\ lastEvent.op = "setOpacity" => Includes(activeLayers, lastEvent.key)

\* the slider of an active burden has been moved in individual mode, while
\* another burden is inactive and has a button but no slider
C16_Witness ==
    /\ lastEvent.op = "setOpacity"
    /\ lastEvent.key = "malnutrition"
    /\ viewMode = "individual"
    /\ ~Includes(activeLayers, "env_footprint")
    /\ ButtonRendered("env_footprint", viewMode)
    /\ ~SliderRendered("env_footprint", viewMode, activeLayers)

(***************************************************************************)
(* C17: toggle(k) flips the membership of exactly k and changes no other   *)
(* key's membership, nor the threshold, the view mode or the opacities;    *)
(* after every sequence of toggle and view-mode events the active list     *)
(* holds no key twice; toggling k again restores the original set of keys. *)
(***************************************************************************)
C17_ToggleFlipsOneKey ==
    [][ /\ \A key \in LayerKeys : Count(activeLayers', key) <= 1
        /\ (lastEvent'.op = "toggle" /\ nEvents' = nEvents + 1) =>
               LET k == lastEvent'.key
               IN  /\ Includes(activeLayers', k) <=> ~Includes(activeLayers, k)
                   /\ KeysOf(activeLayers') \ {k} = KeysOf(activeLayers) \ {k}
                   /\ selectedThreshold' = selectedThreshold
                   /\ viewMode' = viewMode
                   /\ layerOpacity' = layerOpacity
                   /\ KeysOf(handleToggle(activeLayers', k)) = KeysOf(activeLayers) ]_vars

\* 'breadbaskets' has been toggled off and on again: the same set of keys,
\* in another order
C17_Witness ==
    /\ lastEvent.op = "toggle"
    /\ lastEvent.key = "breadbaskets"
    /\ nEvents = 2
    /\ activeLayers = <<"cooccurrence", "breadbaskets">>

(***************************************************************************)
(* C18: setOpacity(k, v) changes the opacity entry of k only; toggle,      *)
(* setThreshold and setViewMode never change the opacity mapping; so the   *)
(* opacity of a key survives its deactivation by a toggle or a view-mode   *)
(* switch, and once the key has been activated again the ready map renders *)
(* its layer with that value: at the activating event when the map is      *)
(* ready then, and else when the map's load completes next.                *)
(***************************************************************************)
C18_OpacityFrame ==
    [][ LET lid(k) == IF k = "breadbaskets"
                      THEN BBLayer
                      ELSE RasterLayer(k, selectedThreshold')
            RenderedAsChosen(k) ==
                /\ maps'[mapRef'].layout[lid(k)] = "visible"
                /\ maps'[mapRef'].opacity[lid(k)] = layerOpacity[k]
        IN
        /\ (nEvents' = nEvents + 1) =>
              /\ lastEvent'.op = "setOpacity" =>
                     /\ layerOpacity'[lastEvent'.key] = lastEvent'.val
                     /\ \A k \in LayerKeys \ {lastEvent'.key} :
                            layerOpacity'[k] = layerOpacity[k]
              /\ lastEvent'.op \in {"toggle", "setThreshold", "setViewMode"} =>
                     layerOpacity' = layerOpacity
              /\ MapReady' =>
                     \A k \in LayerKeys :
                        (~Includes(activeLayers, k) /\ Includes(activeLayers', k))
                            => RenderedAsChosen(k)
        /\ (lastEvent'.op = "load" /\ lastEvent.op = "toggle"
                /\ Includes(activeLayers, lastEvent.key) /\ MapReady')
              => RenderedAsChosen(lastEvent.key) ]_vars

(***************************************************************************)
(* C19: in every state reachable through the control panel in which a      *)
(* ready map is synchronized with the root state (a synchronization leaves *)
(* it as it is), the legend agrees with the map: the co-occurrence scale   *)
(* is shown iff a co-occurrence raster is visible, the swatch of a burden  *)
(* iff one of that burden's rasters is visible, and the food-group key iff *)
(* the point layer is visible.                                             *)
(***************************************************************************)
C19_LegendAgreesWithMap ==
    (/\ MapReady
     /\ syncLayers(maps[mapRef], activeLayers, layerOpacity, selectedThreshold)
            = maps[mapRef])
    => LET visible == VisibleSet(maps[mapRef])
       IN  /\ Len(legend.scale) > 0
                  <=> (\E t \in ThresholdSet : RasterLayer("cooccurrence", t) \in visible)
           /\ \A b \in BurdenKeySet :
                  b \in KeysOf(legend.swatches)
                      <=> (\E t \in ThresholdSet : RasterLayer(b, t) \in visible)
           /\ legend.foodGroups <=> BBLayer \in visible

\* individual mode on a synchronized ready map: one burden's liberal raster
\* is visible and the legend shows that burden's swatch and no scale
C19_Witness ==
    /\ MapReady
    /\ syncLayers(maps[mapRef], activeLayers, layerOpacity, selectedThreshold)
           = maps[mapRef]
    /\ viewMode = "individual"
    /\ VisibleSet(maps[mapRef]) = {BBLayer, RasterLayer("env_footprint", "liberal")}
    /\ legend.swatches = <<"env_footprint">>
    /\ legend.scale = <<>>
    /\ legend.foodGroups

(***************************************************************************)
(* C20: a synchronization passes its guard only on a live map whose load   *)
(* handler has registered all sources and layers; for every interleaving   *)
(* of control events with mount, load and unmount, a synchronization that  *)
(* runs while the instance is absent or not ready changes no map, and the  *)
(* one that runs at mount leaves the new map as constructed.               *)
(***************************************************************************)
C20_SyncOnlyWhenReady ==
    [][ /\ readyRef' =>
               /\ mapRef' \in DOMAIN maps'
               /\ maps'[mapRef'].loaded
               /\ DOMAIN maps'[mapRef'].layout = AllLayerIds
               /\ Cardinality(maps'[mapRef'].sources) = 11
        /\ (nEvents' = nEvents + 1 /\ ~MapReady) => maps' = maps
        /\ lastEvent'.op = "mount" =>
               /\ maps'[mapRef'] = NewMap
               /\ \A id \in DOMAIN maps : id \in DOMAIN maps' /\ maps'[id] = maps[id] ]_vars

\* after an unmount and a second mount, a control event has run its
\* synchronization before the new map's load: the map is as constructed
C20_Witness ==
    /\ created = 2
    /\ mounted
    /\ ~readyRef
    /\ lastEvent.op = "setViewMode"
    /\ viewMode = "individual"
    /\ maps[mapRef] = NewMap

====
